---- MODULE Spec2Model ----
(***************************************************************************)
(* The GUI/Custom selection dialogs of the repository: N rows, each an     *)
(* exclusive QButtonGroup of two radio buttons (id 0 = GUI, id 1 =         *)
(* Custom), optional master controls, and the "Okay" button.               *)
(*                                                                         *)
(* Six dialog classes are modelled, selected by `variant`:                 *)
(*   "plain"   dynamic_string_widget.py        no master, no validation    *)
(*   "table"   design_dynamic_custom_table.py  no master, validation       *)
(*   "table3"  design_dynamic_custom_table_3.py  validation, labels listed *)
(*   "button"  select_all_custom_code_box.py   master buttons, clear       *)
(*   "clear"   Custom_checkbox_2.py            master checkboxes, clear    *)
(*   "flip"    string_popup_dynamic_widget.py  master checkboxes, flip     *)
(*                                                                         *)
(* One action is one user gesture, handled to completion (Qt delivers the  *)
(* signals of a gesture synchronously, in the GUI thread).                 *)
(*                                                                         *)
(* A second specification, SpecMei, models AppSpecificTempCleanup of       *)
(* clean_temp_files_at_start.py: the exit-time cleanup of PyInstaller's    *)
(* _MEI* folders and of the application's temporary files.                 *)
(***************************************************************************)
EXTENDS Integers, Sequences, FiniteSets, TLC

VARIABLES
    variant,             \* which dialog class is running
    string_list,         \* the input labels, in order
    checked,             \* checked[i] = button_groups[i][1].checkedId(): -1, 0 or 1
    gui_checkbox,        \* gui_checkbox.isChecked()
    custom_checkbox,     \* custom_checkbox.isChecked()
    updating_checkboxes, \* the re-entrancy flag of Custom_checkbox_2.py
    closed,              \* self.close() has run (the dialog is committed)
    result_ready,        \* the results emitted through the result_ready signal
    unselected_items,    \* the list on_ok_clicked built in its last run
    warning,             \* the text of the last QMessageBox.warning shown
    gesture,             \* the last user gesture delivered to the dialog
    before,              \* the options every row held when that gesture arrived
    checkbox_writes,     \* setChecked calls on the master checkboxes it made
    to_fix,              \* rows the last rejected "Okay" reported and that have
                         \* not been clicked since ({0}: nothing to follow)
    current_mei_path,    \* AppSpecificTempCleanup.current_mei_path
    temp_listing,        \* the names in the temp directory, in scan order
    in_use,              \* the names whose removal raises OSError
    rmtree_calls,        \* the names the last cleanup tried to remove
    last_cleanup,        \* the cleanup method that ran last
    cleanups             \* how many cleanup methods have run

dialog_vars == <<variant, string_list, checked, gui_checkbox, custom_checkbox,
                 updating_checkboxes, closed, result_ready, unselected_items,
                 warning, gesture, before, checkbox_writes, to_fix>>

cleanup_vars == <<current_mei_path, temp_listing, in_use, rmtree_calls,
                  last_cleanup, cleanups>>

vars == <<dialog_vars, cleanup_vars>>

----------------------------------------------------------------------------
(* Bounds *)

MaxItems == 3

\* The cleanup methods run at most this many times (cleanup_on_exit runs two).
MaxCleanups == 2

Labels == {"getUserData", "getProfile"}

----------------------------------------------------------------------------
(* Program constants *)

UNSET == -1
GUI == 0
CUSTOM == 1

Variants == {"plain", "table", "table3", "button", "clear", "flip"}
CheckboxVariants == {"clear", "flip"}
MasterVariants == {"button", "clear", "flip"}
ValidatingVariants == Variants \ {"plain"}

\* QButtonGroup(self): a QButtonGroup is exclusive unless setExclusive(False)
\* is called, and no dialog calls it.
GroupExclusive == TRUE

Rows == 1..Len(string_list)

\* The widget state the handlers read and write; `writes` counts the
\* setChecked calls made on the master checkboxes while one gesture is handled.
Widget == [checked |-> checked, gui |-> gui_checkbox, custom |-> custom_checkbox,
           updating |-> updating_checkboxes, writes |-> 0]

----------------------------------------------------------------------------
(* Custom_checkbox_2.py: master checkboxes, unchecking clears *)

CountId(c, id) == Cardinality({i \in DOMAIN c : c[i] = id})

update_checkbox_states_from_radios(w) ==
    IF w.updating THEN w
    ELSE LET gui_count == CountId(w.checked, GUI)
             custom_count == CountId(w.checked, CUSTOM)
             total_count == Len(w.checked)
         IN [w EXCEPT !.gui = (gui_count = total_count),
                      !.custom = (custom_count = total_count),
                      !.writes = @ + 2,
                      !.updating = FALSE]

\* on_radio_button_changed recomputing the checkboxes without looking at
\* the updating_checkboxes flag.
on_radio_button_changed_unguarded(w) ==
    [w EXCEPT !.gui = (CountId(w.checked, GUI) = Len(w.checked)),
              !.custom = (CountId(w.checked, CUSTOM) = Len(w.checked)),
              !.writes = @ + 2,
              !.updating = FALSE]

on_radio_button_changed(w) ==
    IF w.updating THEN w ELSE update_checkbox_states_from_radios(w)

\* button_group.button(id).setChecked(True) with toggled connected to
\* on_radio_button_changed: nothing happens when the button is already
\* checked; otherwise the group's previously checked button (if any) is
\* unchecked and emits toggled(False), then the button emits toggled(True).
\* checkedId() already answers id while both signals are delivered.
RadioSetChecked(w, i, id) ==
    IF w.checked[i] = id THEN w
    ELSE LET w1 == [w EXCEPT !.checked[i] = id]
             w2 == IF w.checked[i] # UNSET THEN on_radio_button_changed(w1) ELSE w1
         IN on_radio_button_changed(w2)

\* checked_button.setAutoExclusive(False); checked_button.setChecked(False);
\* checked_button.setAutoExclusive(True) on the checked button of row i.
\* QAbstractButton::setChecked(false) returns at once for the checked button of
\* an exclusive QButtonGroup: for a button that belongs to a group Qt consults
\* the group's exclusive property, not the button's autoExclusive property.
RadioSetUnchecked(w, i) ==
    IF GroupExclusive THEN w
    ELSE on_radio_button_changed([w EXCEPT !.checked[i] = UNSET])

RECURSIVE SelectAllFrom(_, _, _)
\* for _, button_group in self.button_groups: button_group.button(id).setChecked(True)
SelectAllFrom(w, i, id) ==
    IF i > Len(w.checked) THEN w
    ELSE SelectAllFrom(RadioSetChecked(w, i, id), i + 1, id)

RECURSIVE ClearFrom(_, _)
ClearFrom(w, i) ==
    IF i > Len(w.checked) THEN w
    ELSE ClearFrom(IF w.checked[i] # UNSET THEN RadioSetUnchecked(w, i) ELSE w, i + 1)

clear_all_selections(w) == ClearFrom(w, 1)

\* on_gui_checkbox_clicked without its last line: the flag stays True.
on_gui_checkbox_clicked_noReset(w) ==
    IF w.updating THEN w
    ELSE LET w1 == [w EXCEPT !.updating = TRUE]
         IN IF w1.gui
            THEN [SelectAllFrom(w1, 1, GUI) EXCEPT !.custom = FALSE,
                                                   !.writes = @ + 1]
            ELSE clear_all_selections(w1)

\* on_custom_checkbox_clicked without "self.gui_checkbox.setChecked(False)".
on_custom_checkbox_clicked_keepsGui(w) ==
    IF w.updating THEN w
    ELSE LET w1 == [w EXCEPT !.updating = TRUE]
             w2 == IF w1.custom
                   THEN SelectAllFrom(w1, 1, CUSTOM)
                   ELSE clear_all_selections(w1)
         IN [w2 EXCEPT !.updating = FALSE]

\* The handlers run after QCheckBox has toggled the clicked checkbox.
on_gui_checkbox_clicked(w) ==
    IF w.updating THEN w
    ELSE LET w1 == [w EXCEPT !.updating = TRUE]
             w2 == IF w1.gui
                   THEN [SelectAllFrom(w1, 1, GUI) EXCEPT !.custom = FALSE,
                                                          !.writes = @ + 1]
                   ELSE clear_all_selections(w1)
         IN [w2 EXCEPT !.updating = FALSE]

on_custom_checkbox_clicked(w) ==
    IF w.updating THEN w
    ELSE LET w1 == [w EXCEPT !.updating = TRUE]
             w2 == IF w1.custom
                   THEN [SelectAllFrom(w1, 1, CUSTOM) EXCEPT !.gui = FALSE,
                                                             !.writes = @ + 1]
                   ELSE clear_all_selections(w1)
         IN [w2 EXCEPT !.updating = FALSE]

----------------------------------------------------------------------------
(* Dialogs whose radio buttons have no toggled listener *)

\* A handler bound to the loop variable instead of its row: always the last row.
SetChecked_lastRow(w, i, id) == [w EXCEPT !.checked[Len(w.checked)] = id]

\* A click on the checked radio button unchecks it.
SetChecked_unchecksOnRepeat(w, i, id) ==
    [w EXCEPT !.checked[i] = IF w.checked[i] = id THEN UNSET ELSE id]

\* Choices stored per label instead of per row: every row that shows the
\* label of row i takes the choice.
SetChecked_byLabel(w, i, id) ==
    [w EXCEPT !.checked = [j \in DOMAIN @ |->
                              IF string_list[j] = string_list[i] THEN id ELSE @[j]]]

\* button.setChecked(True): the group unchecks its previously checked button.
SetChecked(w, i, id) == [w EXCEPT !.checked[i] = id]

\* setAutoExclusive(False); setChecked(False); setAutoExclusive(True) on the
\* checked button of an exclusive QButtonGroup (see RadioSetUnchecked).
SetUnchecked(w, i) ==
    IF GroupExclusive THEN w ELSE [w EXCEPT !.checked[i] = UNSET]

RECURSIVE SetAllFrom_skipsLast(_, _, _)
\* The select loop stopping one row early.
SetAllFrom_skipsLast(w, i, id) ==
    IF i >= Len(w.checked) THEN w
    ELSE SetAllFrom_skipsLast([w EXCEPT !.checked[i] = id], i + 1, id)

RECURSIVE SetAllFrom(_, _, _)
SetAllFrom(w, i, id) ==
    IF i > Len(w.checked) THEN w
    ELSE SetAllFrom(SetChecked(w, i, id), i + 1, id)

----------------------------------------------------------------------------
(* string_popup_dynamic_widget.py: master checkboxes, unchecking flips *)

\* on_gui_checkbox_clicked without "self.custom_checkbox.setChecked(False)".
flip_on_gui_checkbox_clicked_keepsCustom(w) ==
    IF w.gui
    THEN SetAllFrom(w, 1, GUI)
    ELSE [SetAllFrom(w, 1, CUSTOM) EXCEPT !.custom = TRUE]

\* Unchecking the GUI checkbox clears every row instead of flipping it.
flip_on_gui_checkbox_clicked_clears(w) ==
    IF w.gui
    THEN [SetAllFrom(w, 1, GUI) EXCEPT !.custom = FALSE, !.writes = @ + 1]
    ELSE [w EXCEPT !.checked = [i \in DOMAIN @ |-> UNSET]]

flip_on_gui_checkbox_clicked(w) ==
    IF w.gui
    THEN [SetAllFrom(w, 1, GUI) EXCEPT !.custom = FALSE, !.writes = @ + 1]
    ELSE [SetAllFrom(w, 1, CUSTOM) EXCEPT !.custom = TRUE, !.writes = @ + 1]

\* on_custom_checkbox_clicked whose unchecking branch does nothing.
flip_on_custom_checkbox_clicked_uncheckOnly(w) ==
    IF w.custom
    THEN [SetAllFrom(w, 1, CUSTOM) EXCEPT !.gui = FALSE, !.writes = @ + 1]
    ELSE w

flip_on_custom_checkbox_clicked(w) ==
    IF w.custom
    THEN [SetAllFrom(w, 1, CUSTOM) EXCEPT !.gui = FALSE, !.writes = @ + 1]
    ELSE [SetAllFrom(w, 1, GUI) EXCEPT !.gui = TRUE, !.writes = @ + 1]

----------------------------------------------------------------------------
(* select_all_custom_code_box.py: master push buttons *)

are_all_gui_selected(w) == \A i \in DOMAIN w.checked : w.checked[i] = GUI

are_all_custom_selected(w) == \A i \in DOMAIN w.checked : w.checked[i] = CUSTOM

RECURSIVE ButtonClearFrom(_, _)
ButtonClearFrom(w, i) ==
    IF i > Len(w.checked) THEN w
    ELSE ButtonClearFrom(IF w.checked[i] # UNSET THEN SetUnchecked(w, i) ELSE w, i + 1)

\* A clearing loop that leaves after its first row.
button_clear_all_selections_firstOnly(w) == [w EXCEPT !.checked[1] = UNSET]

button_clear_all_selections(w) == ButtonClearFrom(w, 1)

\* A button that remembers its last press: pressed twice in a row it selects
\* the other column.
select_all_gui_remembers(w) ==
    IF gesture = [op |-> "activateMaster", row |-> 0, option |-> GUI]
    THEN SetAllFrom(w, 1, CUSTOM)
    ELSE SetAllFrom(w, 1, GUI)

select_all_gui(w) ==
    IF are_all_gui_selected(w)
    THEN button_clear_all_selections(w)
    ELSE SetAllFrom(w, 1, GUI)

select_all_custom(w) ==
    IF are_all_custom_selected(w)
    THEN button_clear_all_selections(w)
    ELSE SetAllFrom(w, 1, CUSTOM)

----------------------------------------------------------------------------
(* on_ok_clicked and get_result, all dialogs *)

RECURSIVE UnselectedFrom(_, _, _, _)
\* for string_item, button_group in self.button_groups:
\*     if button_group.checkedId() == -1: unselected_items.append(string_item)
UnselectedFrom(sl, c, i, acc) ==
    IF i > Len(sl) THEN acc
    ELSE UnselectedFrom(sl, c, i + 1,
                        IF c[i] = UNSET THEN Append(acc, sl[i]) ELSE acc)

RECURSIVE UnselectedNotGui(_, _, _, _)
UnselectedNotGui(sl, c, i, acc) ==
    IF i > Len(sl) THEN acc
    ELSE UnselectedNotGui(sl, c, i + 1,
                          IF c[i] # GUI THEN Append(acc, sl[i]) ELSE acc)

\* on_ok_clicked testing checkedId() != 0 instead of checkedId() == -1.
Unselected_notGui(sl, c) == UnselectedNotGui(sl, c, 1, <<>>)

RECURSIVE UnselectedNewestFirst(_, _, _, _)
UnselectedNewestFirst(sl, c, i, acc) ==
    IF i > Len(sl) THEN acc
    ELSE UnselectedNewestFirst(sl, c, i + 1,
                               IF c[i] = UNSET THEN <<sl[i]>> \o acc ELSE acc)

\* on_ok_clicked with unselected_items.insert(0, string_item) for append.
Unselected_insertFirst(sl, c) == UnselectedNewestFirst(sl, c, 1, <<>>)

Unselected(sl, c) == UnselectedFrom(sl, c, 1, <<>>)

\* get_result with the test on the wrong button id.
ChoiceText_wrongId(checked_id) == IF checked_id = CUSTOM THEN "GUI" ELSE "Custom"

\* choice = "GUI" if checked_id == 0 else "Custom"
ChoiceText(checked_id) == IF checked_id = GUI THEN "GUI" ELSE "Custom"

RECURSIVE ResultFrom(_, _, _, _)
ResultFrom(sl, c, i, acc) ==
    IF i > Len(sl) THEN acc
    ELSE ResultFrom(sl, c, i + 1, Append(acc, <<sl[i], ChoiceText(c[i])>>))

get_result(sl, c) == ResultFrom(sl, c, 1, <<>>)

\* on_ok_clicked without its early return.
HasUnselected_never(unselected) == FALSE

\* "if unselected_items is not None:" (an empty list is not None).
HasUnselected_always(unselected) == TRUE

\* if unselected_items: (a non-empty list is true)
HasUnselected(unselected) == unselected # <<>>

NoWarning == [text |-> "", items |-> <<>>]

\* The text handed to QMessageBox.warning: only design_dynamic_custom_table_3.py
\* interpolates the unselected labels (", ".join(unselected_items)); `items`
\* holds the labels the text names.
WarningText(v, unselected) ==
    IF v = "table3"
    THEN [text |-> "Please select options for: ", items |-> unselected]
    ELSE [text |-> "Please select all options before proceeding.", items |-> <<>>]

----------------------------------------------------------------------------
(* clean_temp_files_at_start.py: AppSpecificTempCleanup *)

\* The directory that holds the _MEI* folders (tempfile.gettempdir(), and the
\* parent of sys._MEIPASS).
TempDir == "/tmp"

\* Names that fnmatch '_MEI*'.
MeiNames == {"_MEI1", "_MEI2", "_MEI3"}

\* Names that fnmatch one of app_temp_patterns (app_name = "MyPySide6App").
AppTempNames == {"MyPySide6App_1.tmp"}

EntryNames == MeiNames \cup AppTempNames

\* getattr(sys, '_MEIPASS', None) when the process does not run from
\* PyInstaller: `not self.current_mei_path` holds.
NoPath == [dir |-> "", name |-> ""]

join(dir, name) == [dir |-> dir, name |-> name]

dirname(path) == path.dir

Range(s) == {s[k] : k \in DOMAIN s}

\* glob.glob(os.path.join(temp_path, '_MEI*')): the matching paths, in the
\* order the directory is scanned.
glob_mei(temp_path, listing) ==
    LET names == IF temp_path = TempDir
                 THEN SelectSeq(listing, LAMBDA n : n \in MeiNames)
                 ELSE <<>>
    IN [k \in 1..Len(names) |-> join(temp_path, names[k])]

\* glob.glob over app_temp_patterns in self.temp_dir.
glob_app(listing) ==
    LET names == SelectSeq(listing, LAMBDA n : n \in AppTempNames)
    IN [k \in 1..Len(names) |-> join(TempDir, names[k])]

\* rmtree(folder) / os.remove(file): raises OSError for a name in use, which
\* leaves the name in the directory; removes the name otherwise.
rmtree(st, path) ==
    [listing |-> IF path.name \in in_use
                 THEN st.listing
                 ELSE SelectSeq(st.listing, LAMBDA n : n # path.name),
     calls |-> Append(st.calls, path.name)]

\* A loop inside one try block: the first failing rmtree ends the loop.
RECURSIVE RemoveFromStopping(_, _, _)
RemoveFromStopping(folders, k, st) ==
    IF k > Len(folders) THEN st
    ELSE IF folders[k] = current_mei_path
         THEN RemoveFromStopping(folders, k + 1, st)
         ELSE IF folders[k].name \in in_use
              THEN rmtree(st, folders[k])
              ELSE RemoveFromStopping(folders, k + 1, rmtree(st, folders[k]))

RemoveEach_stopsAtFailure(folders, st) == RemoveFromStopping(folders, 1, st)

\* The loop of cleanup_mei_folders from its k-th folder on: the current folder
\* is skipped, a failing rmtree is caught inside the loop body.
RECURSIVE RemoveFrom(_, _, _)
RemoveFrom(folders, k, st) ==
    IF k > Len(folders) THEN st
    ELSE IF folders[k] = current_mei_path
         THEN RemoveFrom(folders, k + 1, st)
         ELSE RemoveFrom(folders, k + 1, rmtree(st, folders[k]))

RemoveEach(folders, st) == RemoveFrom(folders, 1, st)

\* The loop of cleanup_app_temp_files: every match is removed, failures are
\* caught inside the loop body.
RECURSIVE RemoveAllFrom(_, _, _)
RemoveAllFrom(files, k, st) ==
    IF k > Len(files) THEN st
    ELSE RemoveAllFrom(files, k + 1, rmtree(st, files[k]))

\* No cleanup object exists (the dialogs never create one).
CleanupIdle ==
    /\ current_mei_path = NoPath
    /\ temp_listing = <<>>
    /\ in_use = {}
    /\ rmtree_calls = <<>>
    /\ last_cleanup = "none"
    /\ cleanups = 0

----------------------------------------------------------------------------
(* The state machine *)

RECURSIVE SeqsOf(_, _)
SeqsOf(S, n) ==
    IF n = 0 THEN {<<>>}
    ELSE {Append(s, x) : s \in SeqsOf(S, n - 1), x \in S}

\* The input lists: every main() opens its dialog on a non-empty list, and
\* duplicates are allowed (each occurrence is a row of its own).
InputLists == UNION {SeqsOf(Labels, n) : n \in 1..MaxItems}

Init ==
    /\ variant \in Variants
    /\ string_list \in InputLists
    /\ checked = [i \in 1..Len(string_list) |-> UNSET]
    /\ gui_checkbox = FALSE
    /\ custom_checkbox = FALSE
    /\ updating_checkboxes = FALSE
    /\ closed = FALSE
    /\ result_ready = <<>>
    /\ unselected_items = <<>>
    /\ warning = NoWarning
    /\ gesture = [op |-> "init", row |-> 0, option |-> UNSET]
    /\ before = {UNSET}
    /\ checkbox_writes = 0
    /\ to_fix = {0}
    /\ CleanupIdle

\* The options X such that every row holds X (empty for a mixed list).
CommonChoice(c) == {x \in {UNSET, GUI, CUSTOM} : \A i \in DOMAIN c : c[i] = x}

\* A dialog that stays on screen after on_ok_clicked.
Editing_always == TRUE

\* self.close() hides the dialog: a closed dialog receives no gesture.
Editing == ~closed

SetWidget(w) ==
    /\ checked' = w.checked
    /\ gui_checkbox' = w.gui
    /\ custom_checkbox' = w.custom
    /\ updating_checkboxes' = w.updating
    /\ checkbox_writes' = w.writes
    /\ before' = CommonChoice(checked)

\* The user clicks the radio button `id` of row i.
toggleItem(i, id) ==
    /\ Editing
    /\ SetWidget(IF variant = "clear"
                 THEN RadioSetChecked(Widget, i, id)
                 ELSE SetChecked(Widget, i, id))
    /\ gesture' = [op |-> "toggleItem", row |-> i, option |-> id]
    /\ to_fix' = IF i \in to_fix THEN to_fix \ {i} ELSE {0}
    /\ UNCHANGED <<variant, string_list, closed, result_ready,
                   unselected_items, warning>>
    /\ UNCHANGED cleanup_vars

\* The user clicks the master control of the GUI column: a QCheckBox toggles
\* before it emits clicked, a QPushButton only emits clicked.
GuiMasterClicked(w) ==
    CASE variant = "clear" -> on_gui_checkbox_clicked([w EXCEPT !.gui = ~w.gui])
      [] variant = "flip" -> flip_on_gui_checkbox_clicked([w EXCEPT !.gui = ~w.gui])
      [] variant = "button" -> select_all_gui(w)

CustomMasterClicked(w) ==
    CASE variant = "clear" -> on_custom_checkbox_clicked([w EXCEPT !.custom = ~w.custom])
      [] variant = "flip" -> flip_on_custom_checkbox_clicked([w EXCEPT !.custom = ~w.custom])
      [] variant = "button" -> select_all_custom(w)

activateMaster(id) ==
    /\ Editing
    /\ variant \in MasterVariants
    /\ SetWidget(IF id = GUI THEN GuiMasterClicked(Widget)
                 ELSE CustomMasterClicked(Widget))
    /\ gesture' = [op |-> "activateMaster", row |-> 0, option |-> id]
    /\ to_fix' = {0}
    /\ UNCHANGED <<variant, string_list, closed, result_ready,
                   unselected_items, warning>>
    /\ UNCHANGED cleanup_vars

\* The user clicks "Okay".
on_ok_clicked ==
    /\ Editing
    /\ before' = CommonChoice(checked)
    /\ checkbox_writes' = 0
    /\ gesture' = [op |-> "commit", row |-> 0, option |-> UNSET]
    /\ LET unselected == IF variant \in ValidatingVariants
                         THEN Unselected(string_list, checked)
                         ELSE <<>>
       IN /\ unselected_items' = IF variant \in ValidatingVariants
                                 THEN unselected ELSE unselected_items
          /\ IF HasUnselected(unselected)
             THEN /\ warning' = WarningText(variant, unselected)
                  /\ to_fix' = {i \in Rows : checked[i] = UNSET}
                  /\ UNCHANGED <<closed, result_ready>>
             ELSE /\ result_ready' = Append(result_ready, get_result(string_list, checked))
                  /\ closed' = TRUE
                  /\ UNCHANGED <<warning, to_fix>>
    /\ UNCHANGED <<variant, string_list, checked, gui_checkbox,
                   custom_checkbox, updating_checkboxes>>
    /\ UNCHANGED cleanup_vars

Next ==
    \/ \E i \in Rows, id \in {GUI, CUSTOM} : toggleItem(i, id)
    \/ \E id \in {GUI, CUSTOM} : activateMaster(id)
    \/ on_ok_clicked

Spec == Init /\ [][Next]_vars

\* The temp directory as the cleanup finds it: distinct names in scan order.
Listings ==
    {s \in UNION {SeqsOf(EntryNames, n) : n \in 0..Cardinality(EntryNames)} :
        \A a, b \in DOMAIN s : a # b => s[a] # s[b]}

\* AppSpecificTempCleanup.__init__ in a process that shows no dialog gesture:
\* sys._MEIPASS is absent, or names an existing _MEI folder of the temp
\* directory.
InitMei ==
    /\ variant = "plain"
    /\ string_list = <<"getUserData">>
    /\ checked = <<UNSET>>
    /\ gui_checkbox = FALSE
    /\ custom_checkbox = FALSE
    /\ updating_checkboxes = FALSE
    /\ closed = FALSE
    /\ result_ready = <<>>
    /\ unselected_items = <<>>
    /\ warning = NoWarning
    /\ gesture = [op |-> "init", row |-> 0, option |-> UNSET]
    /\ before = {UNSET}
    /\ checkbox_writes = 0
    /\ to_fix = {0}
    /\ temp_listing \in Listings
    /\ in_use \in SUBSET Range(temp_listing)
    /\ current_mei_path \in
         {NoPath} \cup {join(TempDir, n) : n \in Range(temp_listing) \cap MeiNames}
    /\ rmtree_calls = <<>>
    /\ last_cleanup = "none"
    /\ cleanups = 0

cleanup_mei_folders ==
    /\ cleanups < MaxCleanups
    /\ cleanups' = cleanups + 1
    /\ last_cleanup' = "cleanup_mei_folders"
    /\ LET st == IF current_mei_path = NoPath
                 THEN [listing |-> temp_listing, calls |-> <<>>]
                 ELSE RemoveEach(glob_mei(dirname(current_mei_path), temp_listing),
                                 [listing |-> temp_listing, calls |-> <<>>])
       IN /\ temp_listing' = st.listing
          /\ rmtree_calls' = st.calls
    /\ UNCHANGED <<current_mei_path, in_use>>
    /\ UNCHANGED dialog_vars

cleanup_app_temp_files ==
    /\ cleanups < MaxCleanups
    /\ cleanups' = cleanups + 1
    /\ last_cleanup' = "cleanup_app_temp_files"
    /\ LET st == RemoveAllFrom(glob_app(temp_listing), 1,
                               [listing |-> temp_listing, calls |-> <<>>])
       IN /\ temp_listing' = st.listing
          /\ rmtree_calls' = st.calls
    /\ UNCHANGED <<current_mei_path, in_use>>
    /\ UNCHANGED dialog_vars

NextMei ==
    \/ cleanup_mei_folders
    \/ cleanup_app_temp_files

SpecMei == InitMei /\ [][NextMei]_vars

----------------------------------------------------------------------------
(* Vocabulary of the properties *)

AllChoice(c, id) == \A i \in DOMAIN c : c[i] = id

AnyUnset == \E i \in Rows : checked[i] = UNSET

Opposite(id) == IF id = GUI THEN CUSTOM ELSE GUI

Master(id) == IF id = GUI THEN gui_checkbox ELSE custom_checkbox

\* MasterX is On iff every item's choice is X, for both options.
Derived ==
    /\ gui_checkbox <=> AllChoice(checked, GUI)
    /\ custom_checkbox <=> AllChoice(checked, CUSTOM)

UnsetRows == {i \in Rows : checked[i] = UNSET}

\* The k-th row, in input order, whose choice is Unset.
KthUnset(k) ==
    CHOOSE i \in UnsetRows : Cardinality({j \in UnsetRows : j <= i}) = k

RejectedCommit == gesture.op = "commit" /\ ~closed

\* The step delivers a click on the master control of option id.
MasterStep(id) == gesture' = [op |-> "activateMaster", row |-> 0, option |-> id]

\* The step delivers the same master click as the previous gesture, and the
\* previous one arrived in a state where not every item was id.
SecondMasterStep(id) ==
    /\ gesture = [op |-> "activateMaster", row |-> 0, option |-> id]
    /\ MasterStep(id)
    /\ id \notin before

\* The master click of option id runs clear_all_selections: the checkbox was
\* On (Custom_checkbox_2.py), every item is id (select_all_custom_code_box.py).
ClearInvoked(id) ==
    \/ variant = "clear" /\ Master(id)
    \/ variant = "button" /\ AllChoice(checked, id)

----------------------------------------------------------------------------
(* C1..C10 *)

\* C1: in the checkbox variants (toggle-to-clear and toggle-to-flip) the GUI
\* master and the Custom master are never both On, in any reachable state.
C1_MutualExclusivity ==
    variant \in CheckboxVariants => ~(gui_checkbox /\ custom_checkbox)

\* A click on the GUI master that unchecked it and checked the Custom master.
C1_Witness ==
    /\ variant = "flip"
    /\ gesture = [op |-> "activateMaster", row |-> 0, option |-> GUI]
    /\ custom_checkbox
    /\ Len(string_list) >= 2

\* C2: after every toggleItem gesture of a checkbox variant, MasterX is On iff
\* every item's choice is X (both masters are recomputed from the full item
\* set on every single-row change).
C2_DerivationAfterToggleItem ==
    (variant \in CheckboxVariants /\ gesture.op = "toggleItem") => Derived

\* C3: after every activateMaster call of a checkbox variant, under either
\* policy, at most one master is On and MasterX is On iff every item's choice
\* is X.
C3_DerivationAfterActivateMaster ==
    (variant \in CheckboxVariants /\ gesture.op = "activateMaster")
        => (~(gui_checkbox /\ custom_checkbox) /\ Derived)

\* C4: in every dialog variant a confirm gesture emits a result and closes
\* only if no item's choice is Unset at that moment.
C4_CompletenessGate ==
    (closed \/ result_ready # <<>>) => ~AnyUnset

\* C5: a commit rejected because some items are Unset builds exactly the
\* labels of the Unset rows, once per Unset row, in input order; on a fully
\* Unset list it builds the whole input list.
C5_ValidationPayload ==
    (variant \in ValidatingVariants /\ RejectedCommit) =>
        /\ UnsetRows # {}
        /\ Len(unselected_items) = Cardinality(UnsetRows)
        /\ \A k \in 1..Len(unselected_items) :
               unselected_items[k] = string_list[KthUnset(k)]
        /\ (UnsetRows = Rows => unselected_items = string_list)

\* A rejected commit with two rows Unset after a set row, with different labels.
C5_Witness ==
    /\ variant \in ValidatingVariants
    /\ RejectedCommit
    /\ Len(string_list) = 3
    /\ UnsetRows = {2, 3}
    /\ string_list[2] # string_list[3]

\* C6: in every validating variant the warning a rejected commit shows names
\* exactly the labels of the Unset rows.
C6_WarningNamesMissing ==
    (variant \in ValidatingVariants /\ RejectedCommit) =>
        /\ Len(warning.items) = Cardinality(UnsetRows)
        /\ \A k \in 1..Len(warning.items) :
               warning.items[k] = string_list[KthUnset(k)]

\* C7: a commit rejected in a validating variant changes no item's choice, no
\* master state and not the guard flag, emits no result and leaves the dialog
\* open (Editing).
C7_RejectedCommitChangesNothing ==
    [][(gesture'.op = "commit" /\ variant \in ValidatingVariants /\ AnyUnset)
          => /\ UNCHANGED <<checked, gui_checkbox, custom_checkbox,
                            updating_checkboxes, result_ready, closed>>
             /\ ~closed']_vars

\* A commit was rejected while a master was On and a row was set.
C7_Witness ==
    /\ variant = "clear"
    /\ RejectedCommit
    /\ result_ready = <<>>
    /\ \E i \in Rows : checked[i] = CUSTOM
    /\ \E i \in Rows : checked[i] = UNSET

\* C8: a commit made when every item is GUI or Custom succeeds and emits
\* exactly N pairs, the i-th being the i-th input label with that row's
\* choice rendered as "GUI" or "Custom".
C8_CommitResult ==
    (gesture.op = "commit" /\ ~AnyUnset) =>
        /\ closed
        /\ Len(result_ready) = 1
        /\ Len(result_ready[1]) = Len(string_list)
        /\ \A i \in Rows :
              /\ result_ready[1][i][1] = string_list[i]
              /\ checked[i] = GUI => result_ready[1][i][2] = "GUI"
              /\ checked[i] = CUSTOM => result_ready[1][i][2] = "Custom"

\* A result holding a GUI row, then a Custom row with another label.
C8_Witness ==
    /\ closed
    /\ Len(string_list) >= 2
    /\ checked[1] = GUI
    /\ checked[2] = CUSTOM
    /\ string_list[1] # string_list[2]
    /\ Len(result_ready) = 1

\* C9: toggle-to-clear policy (Custom_checkbox_2.py, select_all_custom_code_box.py):
\* activateMaster(X) when every item's choice is X sets every item to Unset
\* and leaves both masters Off; in every other state it sets every item to X,
\* leaves the opposite master Off and the acting master On.
C9_ToggleToClear ==
    [][(gesture'.op = "activateMaster" /\ variant \in {"clear", "button"})
          => IF AllChoice(checked, gesture'.option)
             THEN /\ AllChoice(checked', UNSET)
                  /\ ~gui_checkbox' /\ ~custom_checkbox'
             ELSE /\ AllChoice(checked', gesture'.option)
                  /\ variant = "clear" =>
                        /\ (IF gesture'.option = GUI
                            THEN gui_checkbox' ELSE custom_checkbox')
                        /\ ~(IF gesture'.option = GUI
                             THEN custom_checkbox' ELSE gui_checkbox')]_vars

\* C10: toggle-to-flip policy, flipping branch (string_popup_dynamic_widget.py):
\* activateMaster(X) in any state where every item's choice is X, however
\* reached, sets every item to the opposite option, turns the opposite master
\* On and the acting master Off.
C10_FlipWhenAllSelected ==
    [][(gesture'.op = "activateMaster" /\ variant = "flip"
        /\ AllChoice(checked, gesture'.option))
          => /\ AllChoice(checked', Opposite(gesture'.option))
             /\ (IF gesture'.option = GUI
                 THEN custom_checkbox' /\ ~gui_checkbox'
                 ELSE gui_checkbox' /\ ~custom_checkbox')]_vars

----------------------------------------------------------------------------
(* C11..C20 *)

\* C11: toggle-to-flip policy, non-flipping branch: activateMaster(X) in any
\* state where not every item's choice is X (a state where master X was
\* activated and a row then toggled to the other option included) sets every
\* item's choice to X and leaves the opposite master Off.
C11_FlipSelectsWhenNotAll ==
    [][\A id \in {GUI, CUSTOM} :
          (variant = "flip" /\ MasterStep(id) /\ ~AllChoice(checked, id))
             => /\ AllChoice(checked', id)
                /\ ~(IF id = GUI THEN custom_checkbox' ELSE gui_checkbox')]_vars

\* C12: from the state where every item is Unset and both masters are Off, a
\* single activateMaster(GUI) leaves every item's choice GUI and the list of
\* incomplete labels empty, in every variant with a master control.
C12_SelectAllFromUnset ==
    [][(MasterStep(GUI) /\ AllChoice(checked, UNSET)
        /\ ~gui_checkbox /\ ~custom_checkbox)
          => /\ AllChoice(checked', GUI)
             /\ Unselected(string_list', checked') = <<>>]_vars

\* The GUI master button was pressed on three Unset rows.
C12_Witness ==
    /\ variant = "button"
    /\ gesture = [op |-> "activateMaster", row |-> 0, option |-> GUI]
    /\ before = {UNSET}
    /\ Len(string_list) = 3
    /\ AllChoice(checked, GUI)

\* C13: double activation under toggle-to-clear: activateMaster(GUI) twice in
\* succession, from a state where not every item is GUI, leaves every item
\* Unset and both masters Off (checkbox and button variants alike).
C13_DoubleActivationClears ==
    [][(variant \in {"clear", "button"} /\ SecondMasterStep(GUI))
          => /\ AllChoice(checked', UNSET)
             /\ ~gui_checkbox' /\ ~custom_checkbox']_vars

\* C14: double activation under toggle-to-flip: activateMaster(GUI) twice in
\* succession, from any reachable state where not every item is GUI, leaves
\* every item Custom, the Custom master On and the GUI master Off.
C14_DoubleActivationFlips ==
    [][(variant = "flip" /\ SecondMasterStep(GUI))
          => /\ AllChoice(checked', CUSTOM)
             /\ custom_checkbox' /\ ~gui_checkbox']_vars

\* C15: clearAll(): whenever clear_all_selections runs, every item's choice
\* is Unset and both masters are Off afterwards.
C15_ClearAll ==
    [][\A id \in {GUI, CUSTOM} :
          (MasterStep(id) /\ ClearInvoked(id))
             => /\ AllChoice(checked', UNSET)
                /\ ~gui_checkbox' /\ ~custom_checkbox']_vars

\* C16: toggleItem(label, option) sets the choice of exactly the addressed row
\* to option, whatever it was, and leaves every other row's choice unchanged.
C16_ToggleItemFrame ==
    [][\A i \in Rows, id \in {GUI, CUSTOM} :
          gesture' = [op |-> "toggleItem", row |-> i, option |-> id]
             => /\ checked'[i] = id
                /\ \A j \in Rows \ {i} : checked'[j] = checked[j]]_vars

\* The middle row was toggled between a GUI row and an Unset row.
C16_Witness ==
    /\ gesture = [op |-> "toggleItem", row |-> 2, option |-> CUSTOM]
    /\ checked = <<GUI, CUSTOM, UNSET>>

\* C17: getIncomplete(), the pass on_ok_clicked makes over the rows: on every
\* call it yields, in input order, exactly the labels of the rows Unset in the
\* current state, and it changes no item choice and no master state.
C17_GetIncomplete ==
    [][(gesture'.op = "commit" /\ variant \in ValidatingVariants)
          => /\ UNCHANGED <<checked, gui_checkbox, custom_checkbox>>
             /\ Len(unselected_items') = Cardinality(UnsetRows)
             /\ \A k \in 1..Len(unselected_items') :
                   unselected_items'[k] = string_list[KthUnset(k)]]_vars

\* A pass that found only the first of three rows Unset.
C17_Witness ==
    /\ variant \in ValidatingVariants
    /\ gesture.op = "commit"
    /\ Len(string_list) = 3
    /\ UnsetRows = {1}
    /\ unselected_items = <<string_list[1]>>

\* C18: the dialog starts in Editing; it leaves Editing only by a commit that
\* emits a result, and once Committed no item choice, master state or emitted
\* result changes any more.
C18_CommittedIsTerminal ==
    /\ ~closed
    /\ [][/\ (~closed /\ closed')
               => /\ gesture'.op = "commit"
                  /\ Len(result_ready') = Len(result_ready) + 1
          /\ closed => /\ closed'
                       /\ UNCHANGED <<checked, gui_checkbox, custom_checkbox,
                                      result_ready>>]_vars

\* A committed flip dialog with its one result.
C18_Witness ==
    /\ closed
    /\ variant = "flip"
    /\ gui_checkbox
    /\ Len(result_ready) = 1
    /\ Len(string_list) = 3

\* C19: while a master click of a checkbox variant is applied, the handlers
\* its writes invoke return without effect: the flag is down afterwards and
\* the only setChecked call on a master checkbox is the outer handler's own
\* (none when it clears).
C19_ReentrancySuppressed ==
    (variant \in CheckboxVariants /\ gesture.op = "activateMaster")
        => /\ ~updating_checkboxes
           /\ checkbox_writes =
                 IF variant = "clear" /\ ~Master(gesture.option) THEN 0 ELSE 1
           /\ Master(gesture.option)
                 => AllChoice(checked, gesture.option)

\* The Custom master was checked over three GUI rows: six toggled signals.
C19_Witness ==
    /\ variant = "clear"
    /\ gesture = [op |-> "activateMaster", row |-> 0, option |-> CUSTOM]
    /\ before = {GUI}
    /\ Len(string_list) = 3
    /\ custom_checkbox
    /\ checkbox_writes = 1

----------------------------------------------------------------------------
(* C21..C30 *)

ToggleStep(i) == gesture'.op = "toggleItem" /\ gesture'.row = i

\* C21: duplicate labels are distinct rows. There is one choice per element of
\* the input list; a click in row i leaves every other row that shows the same
\* label unchanged; an emitted result has one pair per row, carrying the
\* row's label, in input order; and the list a rejected "Okay" builds has one
\* entry per Unset row, in input order.
C21_DuplicatesAreDistinctRows ==
    [][/\ Len(checked') = Len(string_list')
       /\ \A i \in Rows : ToggleStep(i) =>
             \A j \in Rows \ {i} :
                 string_list[j] = string_list[i] => checked'[j] = checked[j]
       /\ (closed' /\ ~closed) =>
             LET r == result_ready'[Len(result_ready')]
             IN /\ Len(r) = Len(string_list)
                /\ \A i \in Rows : r[i][1] = string_list[i]
       /\ (gesture'.op = "commit" /\ ~closed' /\ variant \in ValidatingVariants) =>
             /\ Len(unselected_items') = Cardinality(UnsetRows)
             /\ \A k \in 1..Len(unselected_items') :
                    unselected_items'[k] = string_list[KthUnset(k)]
      ]_vars

\* The same label three times, the occurrences hold different choices, and the
\* result reports each of them.
C21_Witness ==
    /\ string_list = <<"getUserData", "getUserData", "getUserData">>
    /\ checked = <<GUI, CUSTOM, GUI>>
    /\ closed
    /\ result_ready = << <<(<<"getUserData", "GUI">>), (<<"getUserData", "Custom">>),
                           (<<"getUserData", "GUI">>)>> >>

\* C22: the button dialog is stateless. A press of the master button of option
\* id leaves item choices that are a function of the item choices before the
\* press and of id alone (every row holds id), whatever gestures came before,
\* and the dialog keeps no master state.
C22_ButtonStateless ==
    [][\A id \in {GUI, CUSTOM} :
          (variant = "button" /\ MasterStep(id)) =>
             /\ checked' = [i \in Rows |-> id]
             /\ gui_checkbox' = FALSE /\ custom_checkbox' = FALSE
             /\ updating_checkboxes' = FALSE
      ]_vars

\* The GUI button pressed twice in a row, the first press on a mixed list.
C22_Witness ==
    /\ variant = "button"
    /\ Len(string_list) = MaxItems
    /\ gesture = [op |-> "activateMaster", row |-> 0, option |-> GUI]
    /\ before = {GUI}
    /\ AllChoice(checked, GUI)

\* C23: column switch. In Custom_checkbox_2.py and
\* select_all_custom_code_box.py, a click on the master of one option right
\* after a click on the master of the other option that left every row on
\* that other option moves every row to the clicked option; with checkboxes,
\* the clicked master ends On and the other one Off.
C23_ColumnSwitch ==
    [][\A id \in {GUI, CUSTOM} :
          (/\ variant \in {"clear", "button"}
           /\ gesture = [op |-> "activateMaster", row |-> 0, option |-> Opposite(id)]
           /\ AllChoice(checked, Opposite(id))
           /\ variant = "clear" => Master(Opposite(id))
           /\ MasterStep(id)) =>
             /\ AllChoice(checked', id)
             /\ variant = "clear" =>
                   /\ (IF id = GUI THEN gui_checkbox' ELSE custom_checkbox')
                   /\ ~(IF id = GUI THEN custom_checkbox' ELSE gui_checkbox')
      ]_vars

\* The Custom checkbox has just switched a list that was all GUI.
C23_Witness ==
    /\ variant = "clear"
    /\ Len(string_list) = MaxItems
    /\ gesture = [op |-> "activateMaster", row |-> 0, option |-> CUSTOM]
    /\ before = {GUI}
    /\ AllChoice(checked, CUSTOM)
    /\ custom_checkbox /\ ~gui_checkbox

\* C24: recovery after a rejected "Okay". When the gestures since the last
\* rejected "Okay" were one click in each row it reported and nothing else
\* (to_fix = {}), the next "Okay" emits the result and closes the dialog.
C24_RecoveryAfterRejectedCommit ==
    [][(gesture'.op = "commit" /\ to_fix = {}) =>
          /\ closed'
          /\ Len(result_ready') = Len(result_ready) + 1
          /\ unselected_items' = <<>>
      ]_vars

\* Accepted after the reported rows, and only they, were clicked: the rows hold
\* both options, so no master control set them.
C24_Witness ==
    /\ variant = "table3"
    /\ Len(string_list) = MaxItems
    /\ closed
    /\ to_fix = {}
    /\ \E i, j \in Rows : checked[i] = GUI /\ checked[j] = CUSTOM

CleanupMeiStep == cleanups' # cleanups /\ last_cleanup' = "cleanup_mei_folders"

\* C25: cleanup_mei_folders keeps the current MEI folder; it removes nothing
\* and calls rmtree on nothing when current_mei_path is None; otherwise it
\* calls rmtree on every other _MEI* folder, so that a folder in use stays and
\* every other _MEI* folder that is not in use is gone, wherever the folders in
\* use come in the scan order. Names that do not match _MEI* stay.
C25_MeiCleanup ==
    [][CleanupMeiStep =>
          /\ current_mei_path # NoPath =>
                current_mei_path.name \in Range(temp_listing')
          /\ current_mei_path = NoPath =>
                temp_listing' = temp_listing /\ rmtree_calls' = <<>>
          /\ current_mei_path # NoPath =>
                \A n \in (Range(temp_listing) \cap MeiNames) \ {current_mei_path.name} :
                    /\ n \in Range(rmtree_calls')
                    /\ n \in Range(temp_listing') <=> n \in in_use
          /\ Range(temp_listing) \ MeiNames \subseteq Range(temp_listing')
      ]_vars

\* rmtree failed on the first old folder and removed the second one; the
\* current folder is still there.
C25_Witness ==
    /\ last_cleanup = "cleanup_mei_folders"
    /\ current_mei_path # NoPath
    /\ current_mei_path.name \in Range(temp_listing)
    /\ Len(rmtree_calls) = 2
    /\ rmtree_calls[1] \in in_use
    /\ rmtree_calls[1] \in Range(temp_listing)
    /\ rmtree_calls[2] \notin Range(temp_listing)

\* C26, the characterisation it gives as equivalent: in Custom_checkbox_2.py,
\* whenever the master checkbox of option id is clicked, it was On before the
\* click if and only if every row held id.
C26_MasterOnIffAllSelected ==
    [][\A id \in {GUI, CUSTOM} :
          (variant = "clear" /\ MasterStep(id)) =>
             (Master(id) <=> AllChoice(checked, id))
      ]_vars

\* C26, the item choices: a master click of option id leaves every row on id
\* in Custom_checkbox_2.py and in select_all_custom_code_box.py alike, and a
\* radio click sets its row in both, so the two dialogs agree on the item
\* choices after every gesture.
C26_ItemChoicesAgree ==
    [][/\ \A id \in {GUI, CUSTOM} :
             (variant \in {"clear", "button"} /\ MasterStep(id)) =>
                checked' = [i \in Rows |-> id]
       /\ \A i \in Rows :
             (variant \in {"clear", "button"} /\ ToggleStep(i)) =>
                checked' = [checked EXCEPT ![i] = gesture'.option]
      ]_vars

\* C27: the guard flag is False in the initial state and after every gesture.
\* A radio click in Custom_checkbox_2.py runs zero, one or two recomputations
\* to their end (two setChecked calls each: the second one runs only because
\* the first one lowered the flag), and a master click makes at most its own
\* setChecked call (the handlers nested in it find the flag True and leave it
\* True for the handlers that follow).
C27_GuardFlagDiscipline ==
    /\ ~updating_checkboxes
    /\ (variant = "clear" /\ gesture.op = "toggleItem") =>
          checkbox_writes \in {0, 2, 4}
    /\ (variant = "clear" /\ gesture.op = "activateMaster") =>
          checkbox_writes \in {0, 1}

\* A radio click moved a row to the other column: two recomputations ran,
\* each raised and lowered the flag.
C27_Witness ==
    /\ variant = "clear"
    /\ gesture.op = "toggleItem"
    /\ checkbox_writes = 4
    /\ ~updating_checkboxes

\* Every row is set after a click on the master of option id in this state.
MasterCompletes(id) ==
    LET w == IF id = GUI THEN GuiMasterClicked(Widget)
             ELSE CustomMasterClicked(Widget)
    IN \A i \in DOMAIN w.checked : w.checked[i] # UNSET

\* C28 as stated: in every dialog that validates, in every Editing state,
\* either no row is Unset or one master click leaves no row Unset.
C28_OneMasterClickAway ==
    (variant \in ValidatingVariants /\ Editing) =>
        \/ ~AnyUnset
        \/ /\ variant \in MasterVariants
           /\ \A id \in {GUI, CUSTOM} : MasterCompletes(id)

\* C28: in every dialog that has master controls, in every Editing state,
\* either no row is Unset ("Okay" succeeds at once) or a click on either
\* master control leaves no row Unset ("Okay" succeeds after it).
C28_OneMasterClickAwayWithMasters ==
    (variant \in MasterVariants /\ Editing) =>
        \/ ~AnyUnset
        \/ \A id \in {GUI, CUSTOM} : MasterCompletes(id)

\* "Okay" was rejected with every row Unset, and the click on the Custom
\* checkbox that followed completed the list.
C28_Witness ==
    /\ variant = "flip"
    /\ Len(string_list) = MaxItems
    /\ gesture = [op |-> "activateMaster", row |-> 0, option |-> CUSTOM]
    /\ before = {UNSET}
    /\ Len(unselected_items) = MaxItems
    /\ ~AnyUnset
    /\ Editing

\* C29: in string_popup_dynamic_widget.py no gesture takes a row from GUI or
\* Custom to Unset, so the Unset rows only shrink; after a master-checkbox
\* click a master is On, a master stays On once one is, no row is Unset while
\* one is, and "Okay" then succeeds.
C29_FlipNeverUnsets ==
    [][variant = "flip" =>
          /\ \A i \in Rows : checked[i] # UNSET => checked'[i] # UNSET
          /\ gesture'.op = "activateMaster" => (gui_checkbox' \/ custom_checkbox')
          /\ (gui_checkbox \/ custom_checkbox) => (gui_checkbox' \/ custom_checkbox')
          /\ (gui_checkbox' \/ custom_checkbox') => \A i \in Rows : checked'[i] # UNSET
          /\ (gesture'.op = "commit" /\ (gui_checkbox \/ custom_checkbox)) => closed'
      ]_vars

\* Accepted after a master click and radio clicks that mixed the columns.
C29_Witness ==
    /\ variant = "flip"
    /\ Len(string_list) = MaxItems
    /\ closed
    /\ gui_checkbox
    /\ \E i, j \in Rows : checked[i] = GUI /\ checked[j] = CUSTOM

----------------------------------------------------------------------------
(* C31..C32 *)

\* C31: in string_popup_dynamic_widget.py, after every click on a master
\* checkbox exactly one of the two master checkboxes is On, and every row
\* holds the option of the one that is On.
C31_FlipExactlyOneMasterOn ==
    [][(variant = "flip" /\ gesture'.op = "activateMaster") =>
          /\ gui_checkbox' # custom_checkbox'
          /\ \A i \in Rows :
                checked'[i] = IF gui_checkbox' THEN GUI ELSE CUSTOM
      ]_vars

\* The Custom checkbox was unchecked over rows that were all Custom: the GUI
\* checkbox is On now and every row is GUI.
C31_Witness ==
    /\ variant = "flip"
    /\ Len(string_list) = MaxItems
    /\ gesture = [op |-> "activateMaster", row |-> 0, option |-> CUSTOM]
    /\ before = {CUSTOM}
    /\ gui_checkbox /\ ~custom_checkbox
    /\ AllChoice(checked, GUI)

\* C32: every pair of an emitted result reports the choice its row holds:
\* "Custom" only for a row whose choice is Custom, "GUI" only for a row whose
\* choice is GUI.
C32_ResultReportsHeldChoice ==
    closed =>
        LET r == result_ready[Len(result_ready)]
        IN \A i \in Rows :
              /\ r[i][2] = "Custom" => checked[i] = CUSTOM
              /\ r[i][2] = "GUI" => checked[i] = GUI
====
